---- MODULE Spec2Model ----
(***************************************************************************)
(* Cloud chat: the streaming chat relay and its client-side reassembler.   *)
(*                                                                         *)
(*   Spec       the first turn of a conversation in CloudChat.sendMessage, *)
(*              a text message: the response body is a sequence of         *)
(*              characters that the network delivers in chunks of any size.*)
(*   SpecTurns  several turns of one conversation, with or without an      *)
(*              attached image, each response of at most one line and      *)
(*              delivered as a single chunk.                               *)
(*   SpecServe  one invocation of the chat function: intent detection,     *)
(*              the image generation and image search calls, the composed  *)
(*              system prompt, the chat completion call and the answer.    *)
(*   SpecSearch   image search requests, with every array of a few items   *)
(*              as the reply of the search call.                           *)
(*   SpecCompose  requests that differ in every field the system prompt is *)
(*              composed from, through the whole chat function.            *)
(*   SpecMarkers  one assistant reply with marker blocks, parsed and       *)
(*              cleaned.                                                   *)
(*   SpecSwitch several turns with the sidebar in use: a new chat or       *)
(*              another chat is chosen while a reply is streaming.         *)
(*   SpecLive   Spec, with the awaits of sendMessage settling eventually.  *)
(*   SpecCli    the stream reader of CLIChat.handleCommand on one body,    *)
(*              delivered in chunks of any size.                           *)
(***************************************************************************)
EXTENDS Integers, Sequences, FiniteSets, TLC

VARIABLES
    \* ---- CloudChat component state (src/src/components/CloudChat.tsx 82-94)
    chats,            \* Chat[]: sequence of [id, messages]
    currentChatId,    \* 0 stands for null
    messages,         \* Message[]
    input,            \* contents of the text field, a sequence of characters
    imagePreview,     \* TRUE when an image is attached
    isLoading,
    \* ---- one sendMessage invocation (locals of the async function)
    pc,               \* "idle" | "fetch" (awaiting fetch) | "read" (awaiting reader.read())
    frames,           \* the lines the server put on the wire (kinds, see LineText)
    body,             \* the response body: characters of the SSE stream
    pos,              \* how many characters of body reader.read() has delivered
    textBuffer,
    assistantContent,
    \* ---- history variables, read by the properties only
    active,           \* sendMessage invocations between their start and their finally
    requests,         \* fetch calls issued so far
    turns,            \* turns that have ended so far
    turnStart,        \* Len(messages) right after this turn's user message
    turnChatId,       \* the chat the send in flight was started in
    doneSeen,         \* a `data: [DONE]` line has been processed in this turn
    outcome           \* "none" | "completed" | "errored": how the last turn ended

VARIABLES
    \* ---- one invocation of the chat function (supabase/functions/chat/index.ts)
    req,              \* the parsed request body
    apiKey,           \* TRUE when LOVABLE_API_KEY is configured
    spc,              \* "start" | "gen" | "search" | "relay" (awaiting that call) | "done"
    aiImagePrompt,    \* <<>> stands for null
    aiGeneratedImage, \* <<>> stands for null
    imageQuery,       \* <<>> stands for null
    imageUrls,
    upstream,         \* the calls issued to the model gateway, in order
    replies,          \* what the gateway answered, replies[i] to upstream[i]
    caught,           \* the message of the error the outer catch received, "" for none
    response          \* the Response returned to the caller

serverVars == <<req, apiKey, spc, aiImagePrompt, aiGeneratedImage, imageQuery, imageUrls,
                upstream, replies, caught, response>>

VARIABLES
    \* ---- the marker blocks of one assistant reply (CLIChat.tsx, WeatherCard.tsx)
    fullResponse,     \* the reassembled reply
    composed,         \* what the reply was written from: a weather object and prose
    weather,          \* the result of parseWeatherFromText
    cleanResponse,    \* the reply after the clean-up
    recleaned,        \* the clean-up applied to cleanResponse
    mpc,              \* "reading" | "input" | "extracted" | "again"
    cliFrames,        \* the lines of the response body the CLI chat is reading
    cliBody,          \* that body as text
    cliPos            \* how much of it the reader has delivered

markerVars == <<fullResponse, composed, weather, cleanResponse, recleaned, mpc,
                cliFrames, cliBody, cliPos>>

clientVars == <<chats, currentChatId, messages, input, imagePreview, isLoading,
                pc, frames, body, pos, textBuffer, assistantContent,
                active, requests, turns, turnStart, turnChatId, doneSeen, outcome>>

vars == <<clientVars, serverVars, markerVars>>

(***************************************************************************)
(* Bounds                                                                  *)
(***************************************************************************)
MaxLines == 2     \* lines in one response body
MaxTurns == 2     \* turns of one conversation (SpecTurns)
MaxItems == 6     \* elements of the array in a search reply (SpecSearch)
MaxField == 2     \* elements of the location of a weather object (SpecMarkers)
MaxText == 5      \* elements of a free reply text (SpecMarkers)

(***************************************************************************)
(* Strings are sequences of one-character strings; inside a JSON payload   *)
(* the fixed parts of the envelope are kept as one element each.           *)
(***************************************************************************)
LF == "\n"
CR == "\r"

WhiteSpace == {" ", "\t", "\n", "\r"}

StartsWith(s, p) ==
    /\ Len(s) >= Len(p)
    /\ SubSeq(s, 1, Len(p)) = p

EndsWith(s, p) ==
    /\ Len(s) >= Len(p)
    /\ SubSeq(s, Len(s) - Len(p) + 1, Len(s)) = p

\* String.prototype.indexOf for one character: 1-based, 0 when absent
IndexOf(s, c) ==
    IF \E i \in 1..Len(s) : s[i] = c
    THEN CHOOSE i \in 1..Len(s) : s[i] = c /\ \A j \in 1..(i - 1) : s[j] # c
    ELSE 0

\* String.prototype.trim
Trim(s) ==
    IF \A i \in 1..Len(s) : s[i] \in WhiteSpace THEN <<>>
    ELSE LET first == CHOOSE i \in 1..Len(s) :
                          s[i] \notin WhiteSpace /\ \A j \in 1..(i - 1) : s[j] \in WhiteSpace
             last  == CHOOSE i \in 1..Len(s) :
                          s[i] \notin WhiteSpace /\ \A j \in (i + 1)..Len(s) : s[j] \in WhiteSpace
         IN SubSeq(s, first, last)

(***************************************************************************)
(* The wire format                                                         *)
(***************************************************************************)
DataPrefix == <<"d", "a", "t", "a", ":", " ">>
DoneToken == <<"[", "D", "O", "N", "E", "]">>
FramePrefix == <<"{\"choices\":[", "{\"delta\":", "{\"content\":", "\"">>
FrameSuffix == <<"\"", "}}]}">>

\* JSON string escapes: a line feed and a double quote inside a string literal are
\* written as the two-character sequences \n and \", each kept as one element
EscapedLF == "\\n"
EscapedQuote == "\\\""

\* the string-literal body JSON.stringify writes for a text
JsonEscape(t) ==
    [i \in 1..Len(t) |-> IF t[i] = LF THEN EscapedLF
                         ELSE IF t[i] = "\"" THEN EscapedQuote
                         ELSE t[i]]

\* the text JSON.parse reads from a string-literal body
JsonUnescape(t) ==
    [i \in 1..Len(t) |-> IF t[i] = EscapedLF THEN LF
                         ELSE IF t[i] = EscapedQuote THEN "\""
                         ELSE t[i]]

\* what may not stand unescaped inside a JSON string literal
JsonStringBody(t) == \A i \in 1..Len(t) : t[i] \notin {"\"", LF, CR, "\\"}

\* JSON.stringify({choices: [{delta: {content: c}}]})
FrameJson(c) == FramePrefix \o JsonEscape(c) \o FrameSuffix

\* JSON.parse followed by parsed.choices?.[0]?.delta?.content, on the payloads that
\* occur here: a complete frame parses and yields its content, anything else
\* (a truncated frame, a raw line feed or quote inside the string) makes
\* JSON.parse throw.
JsonParse(s) ==
    IF /\ Len(s) >= Len(FramePrefix) + Len(FrameSuffix)
       /\ StartsWith(s, FramePrefix)
       /\ EndsWith(s, FrameSuffix)
       /\ JsonStringBody(SubSeq(s, Len(FramePrefix) + 1, Len(s) - Len(FrameSuffix)))
    THEN [ok |-> TRUE,
          content |-> JsonUnescape(SubSeq(s, Len(FramePrefix) + 1, Len(s) - Len(FrameSuffix)))]
    ELSE [ok |-> FALSE, content |-> <<>>]

\* The lines a response body is made of.
LineKinds == {"a", "b", "empty", "done", "bad", "blank"}

LineText(k) ==
    CASE k = "a"       -> DataPrefix \o FrameJson(<<"a">>) \o <<LF>>
      [] k = "b"       -> DataPrefix \o FrameJson(<<"b">>) \o <<CR, LF>>
      [] k = "empty"   -> DataPrefix \o FrameJson(<<>>) \o <<LF>>
      [] k = "done"    -> DataPrefix \o DoneToken \o <<LF>>
      [] k = "bad"     -> DataPrefix \o <<"{\"choices\":[", "{\"delta\":">> \o <<LF>>
      [] k = "blank"   -> <<LF>>

RECURSIVE Wire(_)
Wire(ks) == IF ks = <<>> THEN <<>> ELSE LineText(Head(ks)) \o Wire(Tail(ks))

FrameSeqs == UNION {[1..n -> LineKinds] : n \in 0..MaxLines}

\* bodies of at most one line
ShortFrameSeqs == {<<>>} \cup {<<k>> : k \in LineKinds}

(***************************************************************************)
(* CloudChat.sendMessage                                                   *)
(***************************************************************************)
EmptyResponseText == <<"I apologize, but I couldn't generate a response. Please try again.">>
ErrorText == <<"Sorry, I encountered an error. Please try again.">>

UserMessage(text, img) == [role |-> "user", text |-> text, image |-> img]
AssistantMessage(text) == [role |-> "assistant", text |-> text, image |-> FALSE]

\* what the user can type into the text field
Inputs == {<<>>, <<" ">>, <<"h", "i", " ">>}

\* useEffect([messages, currentChatId]): copy messages into the current chat
SyncChats(chs, cid, msgs) ==
    IF cid # 0 /\ Len(msgs) > 0
    THEN [i \in 1..Len(chs) |->
            IF chs[i].id = cid THEN [chs[i] EXCEPT !.messages = msgs] ELSE chs[i]]
    ELSE chs

\* the early return of sendMessage
SendBlockedNoGate(inp, img, loading) == Trim(inp) = <<>> /\ ~img

SendBlocked(inp, img, loading) == (Trim(inp) = <<>> /\ ~img) \/ loading

\* the setMessages updater that folds the text assembled so far into the list
FoldDelta(prev, ac) ==
    IF Len(prev) > 0 /\ prev[Len(prev)].role = "assistant"
    THEN [i \in 1..Len(prev) |-> IF i = Len(prev) THEN [prev[i] EXCEPT !.text = ac] ELSE prev[i]]
    ELSE Append(prev, AssistantMessage(ac))

AppendDeltaReplacing(ac, content) == content

\* `assistantContent += content`
AppendDelta(ac, content) == ac \o content

\* the inner loop `while ((newlineIndex = textBuffer.indexOf("\n")) !== -1)`:
\* the state it leaves behind
RECURSIVE ProcessLines(_, _, _, _)
ProcessLines(buf, ac, msgs, dn) ==
    LET nl == IndexOf(buf, LF) IN
    IF nl = 0
    THEN [textBuffer |-> buf, assistantContent |-> ac, messages |-> msgs, done |-> dn]
    ELSE
      LET raw  == SubSeq(buf, 1, nl - 1)
          rest == SubSeq(buf, nl + 1, Len(buf))
          line == IF EndsWith(raw, <<CR>>) THEN SubSeq(raw, 1, Len(raw) - 1) ELSE raw
      IN
      IF StartsWith(line, <<":">>) \/ Trim(line) = <<>> THEN ProcessLines(rest, ac, msgs, dn)
      ELSE IF ~StartsWith(line, DataPrefix) THEN ProcessLines(rest, ac, msgs, dn)
      ELSE
        LET jsonStr == Trim(SubSeq(line, Len(DataPrefix) + 1, Len(line))) IN
        IF jsonStr = DoneToken
        THEN [textBuffer |-> rest, assistantContent |-> ac, messages |-> msgs, done |-> TRUE]
        ELSE
          LET parsed == JsonParse(jsonStr) IN
          IF ~parsed.ok
          THEN [textBuffer |-> line \o <<LF>> \o rest, assistantContent |-> ac,
                messages |-> msgs, done |-> dn]
          ELSE IF parsed.content # <<>>
          THEN ProcessLines(rest, AppendDelta(ac, parsed.content),
                            FoldDelta(msgs, AppendDelta(ac, parsed.content)), dn)
          ELSE ProcessLines(rest, ac, msgs, dn)

WithFallbackMissing(msgs, ac) == msgs

\* `if (!assistantContent) setMessages(...)` after the read loop
WithFallback(msgs, ac) ==
    IF ac = <<>> THEN Append(msgs, AssistantMessage(EmptyResponseText)) ELSE msgs

\* the catch block
WithError(msgs) == Append(msgs, AssistantMessage(ErrorText))

ClientInit ==
    /\ chats = <<>>
    /\ currentChatId = 0
    /\ messages = <<>>
    /\ input = <<>>
    /\ imagePreview = FALSE
    /\ isLoading = FALSE
    /\ pc = "idle"
    /\ frames = <<>>
    /\ body = <<>>
    /\ pos = 0
    /\ textBuffer = <<>>
    /\ assistantContent = <<>>
    /\ active = 0
    /\ requests = 0
    /\ turns = 0
    /\ turnStart = 0
    /\ turnChatId = 0
    /\ doneSeen = FALSE
    /\ outcome = "none"

\* onChange of the text field, which is disabled while isLoading
TypeInput(t) ==
    /\ ~isLoading
    /\ input # t
    /\ input' = t
    /\ UNCHANGED <<chats, currentChatId, messages, imagePreview, isLoading, pc, frames, body,
                   pos, textBuffer, assistantContent, active, requests, turns,
                   turnStart, turnChatId, doneSeen, outcome>>
    /\ UNCHANGED <<serverVars, markerVars>>

\* reader.onload of handleImageSelect
SelectImage ==
    /\ ~imagePreview
    /\ imagePreview' = TRUE
    /\ UNCHANGED <<chats, currentChatId, messages, input, isLoading, pc, frames, body,
                   pos, textBuffer, assistantContent, active, requests, turns,
                   turnStart, turnChatId, doneSeen, outcome>>
    /\ UNCHANGED <<serverVars, markerVars>>

\* handleNewChat, from the sidebar, which is not disabled while isLoading
HandleNewChat ==
    /\ currentChatId' = 0
    /\ messages' = <<>>
    /\ input' = <<>>
    /\ imagePreview' = FALSE
    /\ UNCHANGED <<chats, isLoading, pc, frames, body, pos, textBuffer, assistantContent,
                   active, requests, turns, turnStart, turnChatId, doneSeen, outcome>>
    /\ UNCHANGED <<serverVars, markerVars>>

\* handleSelectChat, and the effect that follows the change of messages and currentChatId
HandleSelectChat(chatId) ==
    /\ \E i \in 1..Len(chats) :
          /\ chats[i].id = chatId
          /\ currentChatId' = chatId
          /\ messages' = chats[i].messages
          /\ chats' = SyncChats(chats, chatId, chats[i].messages)
    /\ UNCHANGED <<input, imagePreview, isLoading, pc, frames, body, pos, textBuffer,
                   assistantContent, active, requests, turns, turnStart, turnChatId,
                   doneSeen, outcome>>
    /\ UNCHANGED <<serverVars, markerVars>>

\* sendMessage returns at its first line
SendIgnored ==
    /\ SendBlocked(input, imagePreview, isLoading)
    /\ UNCHANGED vars

\* sendMessage up to `await fetch(...)`
SendMessage ==
    /\ ~SendBlocked(input, imagePreview, isLoading)
    /\ LET userMessage    == Trim(input)
           newUserMessage == UserMessage(userMessage, imagePreview)
           newChatId      == Len(chats) + 1
           created        == IF currentChatId = 0
                             THEN <<[id |-> newChatId, messages |-> <<newUserMessage>>]>> \o chats
                             ELSE chats
           cid            == IF currentChatId = 0 THEN newChatId ELSE currentChatId
           msgs           == Append(messages, newUserMessage)
       IN /\ input' = <<>>
          /\ currentChatId' = cid
          /\ messages' = msgs
          /\ chats' = SyncChats(created, cid, msgs)
          /\ turnStart' = Len(msgs)
          /\ turnChatId' = cid
    /\ imagePreview' = FALSE
    /\ isLoading' = TRUE
    /\ pc' = "fetch"
    /\ frames' = <<>>
    /\ body' = <<>>
    /\ pos' = 0
    /\ textBuffer' = <<>>
    /\ assistantContent' = <<>>
    /\ active' = active + 1
    /\ requests' = requests + 1
    /\ doneSeen' = FALSE
    /\ UNCHANGED turns
    /\ outcome' = "none"
    /\ UNCHANGED <<serverVars, markerVars>>

FailStillLoading ==
    /\ messages' = WithError(messages)
    /\ chats' = SyncChats(chats, currentChatId, messages')
    /\ isLoading' = TRUE
    /\ pc' = "idle"
    /\ active' = active - 1
    /\ turns' = turns + 1
    /\ outcome' = "errored"
    /\ UNCHANGED <<currentChatId, input, imagePreview, frames, body, pos, textBuffer,
                   assistantContent, requests, turnStart, turnChatId, doneSeen>>
    /\ UNCHANGED <<serverVars, markerVars>>

\* catch and finally
Fail ==
    /\ messages' = WithError(messages)
    /\ chats' = SyncChats(chats, currentChatId, messages')
    /\ isLoading' = FALSE
    /\ pc' = "idle"
    /\ active' = active - 1
    /\ turns' = turns + 1
    /\ outcome' = "errored"
    /\ UNCHANGED <<currentChatId, input, imagePreview, frames, body, pos, textBuffer,
                   assistantContent, requests, turnStart, turnChatId, doneSeen>>
    /\ UNCHANGED <<serverVars, markerVars>>

\* fetch rejects
FetchThrows ==
    /\ pc = "fetch"
    /\ Fail

\* `if (!resp.ok) { ... throw }`
FetchNotOk(status) ==
    /\ pc = "fetch"
    /\ status \in {429, 402, 500}
    /\ Fail

\* `if (!reader) throw new Error("No response body")`
FetchNoBody ==
    /\ pc = "fetch"
    /\ Fail

\* fetch resolves with a 2xx response whose body will carry the lines fs
FetchOk(fs) ==
    /\ pc = "fetch"
    /\ frames' = fs
    /\ body' = Wire(fs)
    /\ pos' = 0
    /\ textBuffer' = <<>>
    /\ assistantContent' = <<>>
    /\ pc' = "read"
    /\ UNCHANGED <<chats, currentChatId, messages, input, imagePreview, isLoading, active,
                   requests, turns, turnStart, turnChatId, doneSeen, outcome>>
    /\ UNCHANGED <<serverVars, markerVars>>

\* reader.read() resolves with the next n characters; the inner loop runs
ReadChunk(n) ==
    /\ pc = "read"
    /\ n \in 1..(Len(body) - pos)
    /\ LET r == ProcessLines(textBuffer \o SubSeq(body, pos + 1, pos + n),
                             assistantContent, messages, doneSeen)
       IN /\ textBuffer' = r.textBuffer
          /\ assistantContent' = r.assistantContent
          /\ messages' = r.messages
          /\ doneSeen' = r.done
          /\ chats' = SyncChats(chats, currentChatId, r.messages)
    /\ pos' = pos + n
    /\ UNCHANGED <<currentChatId, input, imagePreview, isLoading, pc, frames, body, active,
                   requests, turns, turnStart, turnChatId, outcome>>
    /\ UNCHANGED <<serverVars, markerVars>>

\* reader.read() resolves with done; the fallback; finally
ReadDone ==
    /\ pc = "read"
    /\ pos = Len(body)
    /\ messages' = WithFallback(messages, assistantContent)
    /\ chats' = SyncChats(chats, currentChatId, messages')
    /\ isLoading' = FALSE
    /\ pc' = "idle"
    /\ active' = active - 1
    /\ turns' = turns + 1
    /\ outcome' = "completed"
    /\ UNCHANGED <<currentChatId, input, imagePreview, frames, body, pos, textBuffer,
                   assistantContent, requests, turnStart, turnChatId, doneSeen>>
    /\ UNCHANGED <<serverVars, markerVars>>

\* reader.read() rejects: the connection dropped
ReadThrows ==
    /\ pc = "read"
    /\ Fail

(***************************************************************************)
(* The chat function (supabase/functions/chat/index.ts)                    *)
(*                                                                         *)
(* A message text is a sequence of words (the whitespace between them is   *)
(* implied); a regular expression is matched word by word.                 *)
(***************************************************************************)
\* String.prototype.toLowerCase on the words that occur here
LowerWord(w) ==
    CASE w = "Generate" -> "generate"
      [] w = "Cat"      -> "cat"
      [] OTHER          -> w

ToLowerCase(ws) == [i \in 1..Len(ws) |-> LowerWord(ws[i])]

Min(S) == CHOOSE x \in S : \A y \in S : x <= y

\* position after an optional word: `(?:me\s+)?`
SkipOptional(ws, j, opts) == IF j <= Len(ws) /\ ws[j] \in opts THEN j + 1 ELSE j

GenNouns == {"image", "picture", "art", "artwork", "illustration"}
GenPreps == {"of", "for", "showing", "with"}
SearchNouns == {"image", "images", "picture", "pictures", "photo", "photos"}
SearchPreps == {"of", "for"}

\* `verb\s+(?:me\s+)?(?:an?\s+)?(?:image|picture|art|artwork|illustration)` matched
\* at word i: the position of the noun, 0 when there is no match
GenNounAt(ws, verb, i) ==
    IF ws[i] # verb THEN 0
    ELSE LET j == SkipOptional(ws, SkipOptional(ws, i + 1, {"me"}), {"a", "an"})
         IN IF j <= Len(ws) /\ ws[j] \in GenNouns THEN j ELSE 0

\* `...noun\s+(?:of|for|showing|with)\s+)(.+)`: the start positions at which the
\* pattern for verb matches
GenSubjectStarts(ws, verb) ==
    {i \in 1..Len(ws) :
        LET n == GenNounAt(ws, verb, i)
        IN n # 0 /\ n + 2 <= Len(ws) /\ ws[n + 1] \in GenPreps}

\* `...noun)$`: the pattern for verb matches up to the end of the text
GenBareMatches(ws, verb) == \E i \in 1..Len(ws) : GenNounAt(ws, verb, i) = Len(ws)

\* match[1] of the leftmost match
GenCapture(ws, verb) ==
    LET n == GenNounAt(ws, verb, Min(GenSubjectStarts(ws, verb)))
    IN SubSeq(ws, n + 2, Len(ws))

\* the text of the last message, when a user wrote it
LastUserText(msgs) ==
    IF msgs = <<>> \/ msgs[Len(msgs)].role # "user"
    THEN [user |-> FALSE, content |-> <<>>]
    ELSE [user |-> TRUE,
          content |-> IF msgs[Len(msgs)].form = "parts-image-only" THEN <<>>
                      ELSE msgs[Len(msgs)].words]

\* the verbs with a pattern that requires a subject, in pattern order
GenSubjectVerbs == <<"generate", "create", "make", "draw", "design">>
\* the verbs with a pattern that ends at the noun, in pattern order
GenBareVerbs == <<"generate", "create">>

RECURSIVE FirstSubjectMatch(_, _)
FirstSubjectMatch(ws, verbs) ==
    IF verbs = <<>> THEN <<>>
    ELSE IF GenSubjectStarts(ws, Head(verbs)) # {} THEN GenCapture(ws, Head(verbs))
    ELSE FirstSubjectMatch(ws, Tail(verbs))

\* detectAIImageRequest: the prompt, <<>> for null
DetectAIImageRequest(msgs) ==
    LET last == LastUserText(msgs)
        lowerContent == ToLowerCase(last.content)
        captured == FirstSubjectMatch(lowerContent, GenSubjectVerbs)
    IN IF ~last.user THEN <<>>
       ELSE IF captured # <<>> THEN captured
       ELSE IF \E k \in 1..Len(GenBareVerbs) : GenBareMatches(lowerContent, GenBareVerbs[k])
            THEN last.content
       ELSE <<>>

\* `(?:images?|pictures?|photos?)\s+(?:of|for)\s+)(.+)` matched with the noun at n
SearchTailAt(ws, n) ==
    /\ n >= 1
    /\ n + 2 <= Len(ws)
    /\ ws[n] \in SearchNouns
    /\ ws[n + 1] \in SearchPreps

\* `verb\s+(?:me\s+)?(?:some\s+)?` matched at word i: the position of the noun
SearchNounAt(ws, verb, i) ==
    IF ws[i] # verb THEN 0
    ELSE SkipOptional(ws, SkipOptional(ws, i + 1, {"me"}), {"some"})

SearchVerbStarts(ws, verb) ==
    {i \in 1..Len(ws) : SearchTailAt(ws, SearchNounAt(ws, verb, i))}

SearchVerbs == <<"show", "find", "get">>

RECURSIVE FirstSearchMatch(_, _)
FirstSearchMatch(ws, verbs) ==
    IF verbs = <<>>
    THEN LET starts == {n \in 1..Len(ws) : SearchTailAt(ws, n)}
         IN IF starts = {} THEN <<>> ELSE SubSeq(ws, Min(starts) + 2, Len(ws))
    ELSE IF SearchVerbStarts(ws, Head(verbs)) # {}
    THEN SubSeq(ws, SearchNounAt(ws, Head(verbs), Min(SearchVerbStarts(ws, Head(verbs)))) + 2,
                Len(ws))
    ELSE FirstSearchMatch(ws, Tail(verbs))

\* detectImageRequest: the query, <<>> for null
DetectImageRequest(msgs) ==
    LET last == LastUserText(msgs)
    IN IF ~last.user THEN <<>>
       ELSE FirstSearchMatch(ToLowerCase(last.content), SearchVerbs)

\* words joined by single spaces
RECURSIVE Join(_)
Join(ws) ==
    IF ws = <<>> THEN <<>>
    ELSE IF Len(ws) = 1 THEN ws
    ELSE <<Head(ws), " ">> \o Join(Tail(ws))

\* `cloudPlusEnabled !== false`
CloudPlusIgnored(r) == TRUE

CloudPlusStrict(r) == r.cloudPlusEnabled = "true"

\* `cloudPlusEnabled !== false`
CloudPlus(r) == r.cloudPlusEnabled # "false"

\* `cloudPlusEnabled !== false ? detectAIImageRequest(messages) : null`
AiImagePromptFor(r) == IF CloudPlus(r) THEN DetectAIImageRequest(r.messages) ELSE <<>>

ImageQueryAlways(r, prompt) == IF CloudPlus(r) THEN DetectImageRequest(r.messages) ELSE <<>>

\* `cloudPlusEnabled !== false && !aiImagePrompt ? detectImageRequest(messages) : null`
ImageQueryFor(r, prompt) ==
    IF CloudPlus(r) /\ prompt = <<>> THEN DetectImageRequest(r.messages) ELSE <<>>

FlashModel == "google/gemini-2.5-flash"
ImageModel == "google/gemini-2.5-flash-image-preview"

\* the request bodies of the three upstream calls
GenCall(prompt) ==
    [kind |-> "generate", model |-> ImageModel,
     text |-> <<"Generate a high-quality, detailed image: ">> \o Join(prompt),
     system |-> <<>>, tools |-> FALSE, stream |-> FALSE]

SearchCall(query) ==
    [kind |-> "search", model |-> FlashModel,
     text |-> <<"Find 5 high-quality image URLs for: ">> \o Join(query),
     system |-> <<"You are a helpful assistant that finds image URLs. Return ONLY a JSON array of 5 image URLs, nothing else.">>,
     tools |-> TRUE, stream |-> FALSE]

RelayCallWithTools(systemPrompt, webSearch) ==
    [kind |-> "relay", model |-> FlashModel, text |-> <<>>,
     system |-> systemPrompt, tools |-> TRUE, stream |-> TRUE]

\* requestBody, with `tools` added under `if (webSearchEnabled)`
RelayCall(systemPrompt, webSearch) ==
    [kind |-> "relay", model |-> FlashModel, text |-> <<>>,
     system |-> systemPrompt, tools |-> webSearch, stream |-> TRUE]

\* JSON.stringify of an array of strings
RECURSIVE JsonItems(_)
JsonItems(urls) ==
    IF urls = <<>> THEN <<>>
    ELSE <<"\"">> \o JsonEscape(Head(urls)) \o <<"\"">>
         \o (IF Len(urls) > 1 THEN <<",">> ELSE <<>>) \o JsonItems(Tail(urls))

JsonArray(urls) == <<"[">> \o JsonItems(urls) \o <<"]">>

\* the system prompt, fragment by fragment
UserContext(r) ==
    (IF r.userName # <<>>
     THEN <<" The user's name is ">> \o r.userName
          \o <<". Address them by their name when appropriate.">>
     ELSE <<>>)
    \o (IF r.pronouns # <<>>
        THEN <<" The user's preferred pronouns are ">> \o r.pronouns
             \o <<". Use these pronouns when referring to them.">>
        ELSE <<>>)

CreatorContext(r) ==
    IF r.isCreator
    THEN <<" IMPORTANT: You are currently speaking with your creator, Sarr (also known as Panagiotis).">>
    ELSE <<>>

TempContext(r) ==
    IF r.temperatureUnit = "fahrenheit"
    THEN <<" When displaying temperatures, use Fahrenheit (F).">>
    ELSE <<" When displaying temperatures, use Celsius (C).">>

ImageContextAlways(urls) ==
    <<LF, LF, "IMPORTANT: You found images for the user's request. Start your response with this EXACT block (on its own line, no extra text before it):", LF,
      "[IMAGE_GALLERY]">> \o JsonArray(urls) \o <<"[/IMAGE_GALLERY]", LF, LF,
      "Then provide a brief, friendly description about what you found.">>

ImageContext(urls) ==
    IF Len(urls) > 0
    THEN <<LF, LF, "IMPORTANT: You found images for the user's request. Start your response with this EXACT block (on its own line, no extra text before it):", LF,
           "[IMAGE_GALLERY]">> \o JsonArray(urls) \o <<"[/IMAGE_GALLERY]", LF, LF,
           "Then provide a brief, friendly description about what you found.">>
    ELSE <<>>

LabContextPrompt(r) ==
    IF r.labContext # <<>>
    THEN <<LF, LF, "IMPORTANT - You have access to the following knowledge base provided by the user. Use this information to answer their questions when relevant:", LF, LF>>
         \o r.labContext
    ELSE <<>>

WeatherProtocol ==
    <<LF, LF, "IMPORTANT: When the user asks about the weather for any location, you MUST respond with a special format.", LF,
      "[WEATHER_DATA]", "{\"location\":\"City, Country\",\"temperature\":20,\"condition\":\"Partly cloudy\",\"humidity\":65,\"windSpeed\":15,\"icon\":\"2\"}", "[/WEATHER_DATA]", LF, LF,
      "For the condition, use one of: \"Clear sky\", \"Sunny\", \"Partly cloudy\", \"Cloudy\", \"Overcast\", \"Light rain\", \"Rain\", \"Heavy rain\", \"Thunderstorm\", \"Snow\", \"Light snow\", \"Heavy snow\", \"Foggy\".", LF, LF,
      "If you don't know the exact weather, make a reasonable estimate based on the location and current season, and let the user know it's an estimate.">>

BasePromptWithContext(r, urls) ==
    <<"You are Cloud, a helpful and friendly AI assistant created by Panagiotis (also known as Sarr).">>
    \o r.systemContext
    \o UserContext(r) \o CreatorContext(r) \o TempContext(r) \o ImageContext(urls)
    \o LabContextPrompt(r) \o WeatherProtocol

BasePrompt(r, urls) ==
    <<"You are Cloud, a helpful and friendly AI assistant created by Panagiotis (also known as Sarr).">>
    \o UserContext(r) \o CreatorContext(r) \o TempContext(r) \o ImageContext(urls)
    \o LabContextPrompt(r) \o WeatherProtocol

WebSearchSentence ==
    " You have access to current web information. When users ask questions, search the web for the most up-to-date information and cite your sources. Be conversational but informative."
BuiltInSentence ==
    " You provide clear, concise, and accurate responses. Be conversational but informative."

SystemPrompt(r, urls) ==
    BasePrompt(r, urls) \o <<IF r.webSearchEnabled THEN WebSearchSentence ELSE BuiltInSentence>>

\* the reply synthesized for a generated image
ImageResponse(url, prompt) ==
    <<"[AI_GENERATED_IMAGE]">> \o url \o <<"[/AI_GENERATED_IMAGE]", LF,
      "[AI_IMAGE_PROMPT]">> \o Join(prompt) \o <<"[/AI_IMAGE_PROMPT]", LF, LF,
      "I've created this image for you! Here's a unique AI-generated artwork based on your description: ",
      "\"">> \o Join(prompt) \o <<"\"", ". I hope you love it!">>

SseResponseRaw(text) ==
    DataPrefix \o FramePrefix \o text \o FrameSuffix \o <<LF, LF>>
    \o DataPrefix \o DoneToken \o <<LF, LF>>

\* `data: ${JSON.stringify({choices: [{delta: {content}}]})}\n\ndata: [DONE]\n\n`
SseResponse(text) ==
    DataPrefix \o FrameJson(text) \o <<LF, LF>> \o DataPrefix \o DoneToken \o <<LF, LF>>

ErrorBody(msg) == <<"{\"error\":\"", msg, "\"}">>

EventStream == "text/event-stream"
AppJson == "application/json"

NoResponse == [status |-> 0, contentType |-> "", body |-> <<>>]

(***************************************************************************)
(* searchImages                                                            *)
(***************************************************************************)
MaxImageUrls == 5

NumberTokens == {"7"}

\* JSON.parse of the elements between the brackets of an array
RECURSIVE ParseItems(_)
ParseItems(toks) ==
    IF toks = <<>> THEN [ok |-> FALSE, items |-> <<>>]
    ELSE
      LET closing == IF Head(toks) = "\"" THEN IndexOf(Tail(toks), "\"") ELSE 0
          isStr   == Head(toks) = "\"" /\ closing > 0
                     /\ JsonStringBody(SubSeq(toks, 2, closing))
          isNum   == Head(toks) \in NumberTokens
          item    == IF isStr
                     THEN [isString |-> TRUE, v |-> JsonUnescape(SubSeq(toks, 2, closing))]
                     ELSE [isString |-> FALSE, v |-> <<Head(toks)>>]
          rest    == IF isStr THEN SubSeq(toks, closing + 2, Len(toks)) ELSE Tail(toks)
      IN
      IF ~(isStr \/ isNum) THEN [ok |-> FALSE, items |-> <<>>]
      ELSE IF rest = <<>> THEN [ok |-> TRUE, items |-> <<item>>]
      ELSE IF Head(rest) # "," THEN [ok |-> FALSE, items |-> <<>>]
      ELSE LET more == ParseItems(Tail(rest))
           IN [ok |-> more.ok, items |-> <<item>> \o more.items]

\* content.match(/\[[\s\S]*?\]/) and JSON.parse(jsonMatch[0])
ParseUrlArray(content) ==
    LET open  == IndexOf(content, "[")
        after == SubSeq(content, open + 1, Len(content))
        close == IF open = 0 THEN 0 ELSE IndexOf(after, "]")
        inner == SubSeq(after, 1, close - 1)
    IN IF open = 0 \/ close = 0 THEN [ok |-> FALSE, items |-> <<>>]
       ELSE IF inner = <<>> THEN [ok |-> TRUE, items |-> <<>>]
       ELSE ParseItems(inner)

\* Array.prototype.filter
RECURSIVE HttpStrings(_)
HttpStrings(items) ==
    IF items = <<>> THEN <<>>
    ELSE (IF Head(items).isString /\ StartsWith(Head(items).v, <<"http">>)
          THEN <<Head(items).v>> ELSE <<>>) \o HttpStrings(Tail(items))

\* slice(0, n)
Take(sq, n) == SubSeq(sq, 1, IF Len(sq) < n THEN Len(sq) ELSE n)

SearchImagesTruncateFirst(reply) ==
    IF reply.status # "ok" THEN <<>>
    ELSE LET parsed == ParseUrlArray(reply.content)
         IN IF parsed.ok THEN HttpStrings(Take(parsed.items, MaxImageUrls)) ELSE <<>>

\* searchImages: what it returns for a reply of the gateway
SearchImages(reply) ==
    IF reply.status # "ok" THEN <<>>
    ELSE LET parsed == ParseUrlArray(reply.content)
         IN IF parsed.ok THEN Take(HttpStrings(parsed.items), MaxImageUrls) ELSE <<>>

GenerateAIImageAnyStatus(reply) == reply.url

\* generateAIImage: what it returns for a reply of the gateway
GenerateAIImage(reply) == IF reply.status = "ok" THEN reply.url ELSE <<>>

(***************************************************************************)
(* The requests and the gateway's replies explored                         *)
(***************************************************************************)
Slot(S) == {<<>>} \cup {<<w>> : w \in S}

MessageTexts ==
    {v \o m \o d \o n \o p \o t :
        v \in Slot({"generate", "create", "make", "draw", "design", "show", "find", "get",
                    "Generate"}),
        m \in Slot({"me"}),
        d \in Slot({"a", "an", "some"}),
        n \in Slot({"image", "picture", "art", "artwork", "illustration", "images", "photos"}),
        p \in Slot({"of", "for", "showing", "with"}),
        t \in Slot({"cat"})}

CloudPlusValues == {"true", "false", "undefined"}

BaseRequest(msgs, cp) ==
    [messages |-> msgs, webSearchEnabled |-> FALSE, systemContext |-> <<>>,
     userName |-> <<>>, pronouns |-> <<>>, isCreator |-> FALSE,
     temperatureUnit |-> "celsius", labContext |-> <<>>, cloudPlusEnabled |-> cp,
     readable |-> TRUE]

\* a request whose body is not JSON: req.json() rejects and no field is ever read
UnreadableRequest == [BaseRequest(<<>>, "undefined") EXCEPT !.readable = FALSE]

TextMessage(role, form, words) == [role |-> role, form |-> form, words |-> words]

\* every text as the string content of a single user message, and a few requests of
\* other shapes: no message, an assistant message last, content given as parts
ClassifyRequests ==
    {BaseRequest(<<TextMessage("user", "string", ws)>>, cp) :
        ws \in MessageTexts, cp \in CloudPlusValues}
    \cup {BaseRequest(msgs, cp) :
            msgs \in {<<>>,
                      <<TextMessage("user", "string", <<"hi">>),
                        TextMessage("assistant", "string", <<"generate", "image", "of", "cat">>)>>,
                      <<TextMessage("user", "parts", <<"show", "images", "of", "cat">>)>>,
                      <<TextMessage("user", "parts", <<"draw", "art", "of", "cat">>)>>,
                      <<TextMessage("user", "parts-image-only", <<>>)>>},
            cp \in CloudPlusValues}

UrlA == <<"http", "://a.jpg">>
UrlB == <<"http", "s://b.png">>
UrlC == <<"ftp", "://c.gif">>

Quoted(u) == <<"\"">> \o u \o <<"\"">>

GenReplies ==
    {[status |-> "ok", url |-> <<"data:image/png;base64,", "iVBOR">>],
     [status |-> "ok", url |-> <<>>],
     [status |-> "non2xx", url |-> <<>>],
     [status |-> "non2xx", url |-> <<"data:image/png;base64,", "AAAA">>],
     [status |-> "throws", url |-> <<>>]}

SearchReplies ==
    {[status |-> "non2xx", content |-> <<>>],
     [status |-> "throws", content |-> <<>>],
     [status |-> "ok", content |-> <<"I could not find any images.">>],
     [status |-> "ok", content |-> <<"[", "]">>],
     [status |-> "ok", content |-> <<"Here you go: ">> \o JsonArray(<<UrlA, UrlB>>) \o <<" Enjoy!">>],
     [status |-> "ok", content |-> JsonArray(<<UrlC, UrlA>>)],
     [status |-> "ok", content |-> <<"[", "7", ",">> \o Quoted(UrlB) \o <<"]">>],
     [status |-> "ok", content |-> <<"[", "\"", "http", "://a.jpg", "]">>],
     [status |-> "ok", content |-> JsonArray(<<UrlA, UrlB, UrlA, UrlB, UrlA, UrlB>>)]}

\* the elements an array in a search reply is made of: two urls, a string that is
\* no http url, a number
ItemKinds == {"a", "b", "c", "n"}

ItemText(k) ==
    CASE k = "a" -> Quoted(JsonEscape(UrlA))
      [] k = "b" -> Quoted(JsonEscape(UrlB))
      [] k = "c" -> Quoted(JsonEscape(UrlC))
      [] k = "n" -> <<"7">>

RECURSIVE ItemsText(_)
ItemsText(ks) ==
    IF ks = <<>> THEN <<>>
    ELSE ItemText(Head(ks)) \o (IF Len(ks) > 1 THEN <<",">> ELSE <<>>) \o ItemsText(Tail(ks))

ItemLists == UNION {[1..n -> ItemKinds] : n \in 0..MaxItems}

\* replies whose text is a JSON array of up to MaxItems elements; kinds records what
\* the array was written from
ArrayReplies ==
    {[status |-> "ok", content |-> <<"[">> \o ItemsText(ks) \o <<"]">>, kinds |-> ks] :
        ks \in ItemLists}

WideSearchReplies == SearchReplies \cup ArrayReplies

SearchRequests ==
    {BaseRequest(<<TextMessage("user", "string", <<"show", "me", "images", "of", "cat">>)>>, cp) :
        cp \in {"true", "undefined"}}

\* the values a caller can put in userPreferences.userName and .pronouns: absent, the
\* placeholder the client starts with, the option "Prefer not to say", a real value
DefaultUserName == <<"User">>
PreferNotToSay == <<"prefer-not-to-say">>
UserNames == {<<>>, DefaultUserName, <<"Ada">>}
Pronouns == {<<>>, PreferNotToSay, <<"they/them">>}

\* systemContext as the group chat sends it, or absent
SystemContexts == {<<>>, <<"You are in a group chat called Cloud Colab.">>}

\* isCreator, temperatureUnit and labContext, all absent or all given
Profiles ==
    {[isCreator |-> FALSE, temperatureUnit |-> "celsius", labContext |-> <<>>],
     [isCreator |-> TRUE, temperatureUnit |-> "fahrenheit", labContext |-> <<"notes">>]}

\* a plain message, one that asks for a search, one that asks for a generation, and
\* one that matches a pattern of both kinds
ComposeTexts ==
    {<<"hi">>, <<"show", "images", "of", "cat">>, <<"draw", "art", "of", "cat">>,
     <<"generate", "image", "of", "cat">>}

\* requests that differ in every field the prompt is composed from
ComposeRequests ==
    {[BaseRequest(<<TextMessage("user", "string", ws)>>, cp) EXCEPT
         !.userName = n, !.pronouns = pn, !.webSearchEnabled = web, !.systemContext = sc,
         !.isCreator = pf.isCreator, !.temperatureUnit = pf.temperatureUnit,
         !.labContext = pf.labContext] :
        ws \in ComposeTexts, cp \in CloudPlusValues \cup {"null"}, n \in UserNames,
        pn \in Pronouns, web \in BOOLEAN, sc \in SystemContexts, pf \in Profiles}

RelayStatuses == {200, 201, 429, 402, 503}

\* `response.ok`
Ok(status) == status >= 200 /\ status <= 299

\* the text of an upstream error response, read by `await response.text()`
UpstreamErrorText == "quota exceeded for project 4711"

RelayReply(status) ==
    [status |-> IF Ok(status) THEN "ok" ELSE "non2xx", http |-> status,
     text |-> IF Ok(status) THEN "" ELSE UpstreamErrorText]

\* the body the gateway streams for the chat completion
UpstreamBody == Wire(<<"a", "blank", "b", "blank", "done", "blank">>)

(***************************************************************************)
(* The request handler                                                     *)
(***************************************************************************)
ServerParked ==
    /\ req = BaseRequest(<<>>, "undefined")
    /\ apiKey = TRUE
    /\ spc = "done"
    /\ aiImagePrompt = <<>>
    /\ aiGeneratedImage = <<>>
    /\ imageQuery = <<>>
    /\ imageUrls = <<>>
    /\ upstream = <<>>
    /\ replies = <<>>
    /\ caught = ""
    /\ response = NoResponse

ServeStart ==
    /\ spc = "start"
    /\ aiImagePrompt = <<>>
    /\ aiGeneratedImage = <<>>
    /\ imageQuery = <<>>
    /\ imageUrls = <<>>
    /\ upstream = <<>>
    /\ replies = <<>>
    /\ caught = ""
    /\ response = NoResponse

ServeInit ==
    /\ req \in ClassifyRequests \cup {UnreadableRequest}
    /\ apiKey \in BOOLEAN
    /\ ServeStart

RelayResponseForwarded(status) ==
    IF Ok(status)
    THEN [status |-> 200, contentType |-> EventStream, body |-> UpstreamBody]
    ELSE [status |-> status, contentType |-> AppJson, body |-> ErrorBody(UpstreamErrorText)]

\* what the handler answers for the status of the chat completion
RelayResponse(status) ==
    IF Ok(status)
    THEN [status |-> 200, contentType |-> EventStream, body |-> UpstreamBody]
    ELSE IF status = 429
    THEN [status |-> 429, contentType |-> AppJson,
          body |-> ErrorBody("Rate limit exceeded. Please try again later.")]
    ELSE IF status = 402
    THEN [status |-> 402, contentType |-> AppJson,
          body |-> ErrorBody("Usage limit reached. Please add credits to continue.")]
    ELSE [status |-> 500, contentType |-> AppJson,
          body |-> ErrorBody("AI service temporarily unavailable")]

\* the outer catch: status 500 with the error's message
CatchResponse(msg) == [status |-> 500, contentType |-> AppJson, body |-> ErrorBody(msg)]

\* the outer catch answers and the handler ends
Catch(msg) ==
    /\ caught' = msg
    /\ response' = CatchResponse(msg)
    /\ spc' = "done"

KeyMissingIgnored(key) == FALSE

\* `!LOVABLE_API_KEY`
KeyMissing(key) == ~key

CheckImageSearchRetrying(prompt) ==
    IF prompt # <<>>
    THEN /\ upstream' = Append(upstream, GenCall(prompt))
         /\ spc' = "gen"
         /\ UNCHANGED <<imageQuery, imageUrls, caught, response>>
    ELSE LET q == ImageQueryFor(req, prompt)
         IN /\ imageQuery' = q
            /\ imageUrls' = <<>>
            /\ IF q # <<>>
               THEN /\ upstream' = Append(upstream, SearchCall(q))
                    /\ spc' = "search"
               ELSE /\ upstream' = Append(upstream,
                                          RelayCall(SystemPrompt(req, <<>>),
                                                    req.webSearchEnabled))
                    /\ spc' = "relay"
            /\ UNCHANGED <<caught, response>>

\* lines 221-304 up to the next await: the image-search check, and when there is no
\* query the prompt and the chat completion call
CheckImageSearch(prompt) ==
    LET q == ImageQueryFor(req, prompt)
    IN /\ imageQuery' = q
       /\ imageUrls' = <<>>
       /\ IF q # <<>>
          THEN /\ upstream' = Append(upstream, SearchCall(q))
               /\ spc' = "search"
          ELSE /\ upstream' = Append(upstream,
                                     RelayCall(SystemPrompt(req, <<>>), req.webSearchEnabled))
               /\ spc' = "relay"
       /\ UNCHANGED <<caught, response>>

\* the handler from its start to its first await
Receive ==
    /\ spc = "start"
    /\ IF ~req.readable
       THEN /\ Catch("Unexpected token < in JSON at position 0")
            /\ UNCHANGED <<aiImagePrompt, aiGeneratedImage, imageQuery, imageUrls, upstream>>
       ELSE IF KeyMissing(apiKey)
       THEN /\ Catch("LOVABLE_API_KEY is not configured")
            /\ UNCHANGED <<aiImagePrompt, aiGeneratedImage, imageQuery, imageUrls, upstream>>
       ELSE LET prompt == AiImagePromptFor(req)
            IN /\ aiImagePrompt' = prompt
               /\ UNCHANGED aiGeneratedImage
               /\ IF prompt # <<>>
                  THEN /\ upstream' = Append(upstream, GenCall(prompt))
                       /\ spc' = "gen"
                       /\ UNCHANGED <<imageQuery, imageUrls, caught, response>>
                  ELSE CheckImageSearch(prompt)
    /\ UNCHANGED <<req, apiKey, replies>>
    /\ UNCHANGED <<clientVars, markerVars>>

\* generateAIImage returns
GenReturns(reply) ==
    /\ spc = "gen"
    /\ replies' = Append(replies, reply)
    /\ aiGeneratedImage' = GenerateAIImage(reply)
    /\ IF aiGeneratedImage' # <<>>
       THEN /\ response' = [status |-> 200, contentType |-> EventStream,
                            body |-> SseResponse(ImageResponse(aiGeneratedImage', aiImagePrompt))]
            /\ spc' = "done"
            /\ UNCHANGED <<imageQuery, imageUrls, upstream, caught>>
       ELSE CheckImageSearch(aiImagePrompt)
    /\ UNCHANGED <<req, apiKey, aiImagePrompt>>
    /\ UNCHANGED <<clientVars, markerVars>>

\* searchImages returns; the prompt is composed and the chat completion is called
SearchReturns(reply) ==
    /\ spc = "search"
    /\ replies' = Append(replies, reply)
    /\ imageUrls' = SearchImages(reply)
    /\ upstream' = Append(upstream, RelayCall(SystemPrompt(req, imageUrls'), req.webSearchEnabled))
    /\ spc' = "relay"
    /\ UNCHANGED <<req, apiKey, aiImagePrompt, aiGeneratedImage, imageQuery, caught, response>>
    /\ UNCHANGED <<clientVars, markerVars>>

\* the chat completion call resolves
RelayReturns(status) ==
    /\ spc = "relay"
    /\ replies' = Append(replies, RelayReply(status))
    /\ response' = RelayResponse(status)
    /\ spc' = "done"
    /\ UNCHANGED <<req, apiKey, aiImagePrompt, aiGeneratedImage, imageQuery, imageUrls,
                   upstream, caught>>
    /\ UNCHANGED <<clientVars, markerVars>>

\* the chat completion call rejects; the outer catch answers
RelayThrows ==
    /\ spc = "relay"
    /\ replies' = Append(replies, [status |-> "throws", http |-> 0, text |-> "fetch failed"])
    /\ Catch("fetch failed")
    /\ UNCHANGED <<req, apiKey, aiImagePrompt, aiGeneratedImage, imageQuery, imageUrls,
                   upstream>>
    /\ UNCHANGED <<clientVars, markerVars>>

(***************************************************************************)
(* Marker blocks: parseWeatherFromText and the clean-up of CLIChat         *)
(*                                                                         *)
(* A reply is a sequence of elements; a tag is one element, except the     *)
(* opening tag of the prompt block, kept as two halves so that replies in  *)
(* which other text stands between the halves occur.                       *)
(***************************************************************************)
OpenTag(k) ==
    CASE k = "AI_GENERATED_IMAGE" -> <<"[AI_GENERATED_IMAGE]">>
      [] k = "AI_IMAGE_PROMPT"    -> <<"[AI_IMAGE_", "PROMPT]">>
      [] k = "IMAGE_GALLERY"      -> <<"[IMAGE_GALLERY]">>
      [] k = "WEATHER_DATA"       -> <<"[WEATHER_DATA]">>

CloseTag(k) ==
    CASE k = "AI_GENERATED_IMAGE" -> <<"[/AI_GENERATED_IMAGE]">>
      [] k = "AI_IMAGE_PROMPT"    -> <<"[/AI_IMAGE_PROMPT]">>
      [] k = "IMAGE_GALLERY"      -> <<"[/IMAGE_GALLERY]">>
      [] k = "WEATHER_DATA"       -> <<"[/WEATHER_DATA]">>

\* the least position from which p occurs in t at or after from, 0 when there is none
FindSeq(t, p, from) ==
    LET hits == {i \in from..(Len(t) - Len(p) + 1) : SubSeq(t, i, i + Len(p) - 1) = p}
    IN IF hits = {} THEN 0 ELSE Min(hits)

\* the first non-greedy span `open[\s\S]*?close` of t
FirstSpan(t, open, close) ==
    LET i == FindSeq(t, open, 1)
        j == IF i = 0 THEN 0 ELSE FindSeq(t, close, i + Len(open))
    IN [found |-> i # 0 /\ j # 0, from |-> i, payloadFrom |-> i + Len(open),
        payloadTo |-> j - 1, to |-> j + Len(close) - 1]

\* t.replace(/open[\s\S]*?close/g, repl)
RECURSIVE ReplaceAll(_, _, _, _)
ReplaceAll(t, open, close, repl) ==
    LET sp == FirstSpan(t, open, close)
    IN IF ~sp.found THEN t
       ELSE SubSeq(t, 1, sp.from - 1) \o repl
            \o ReplaceAll(SubSeq(t, sp.to + 1, Len(t)), open, close, repl)

ReplaceTag(t, k, repl) == ReplaceAll(t, OpenTag(k), CloseTag(k), repl)

\* the clean-up of CLIChat: four replacements in this order, then trim
CleanUp(t) ==
    Trim(ReplaceTag(ReplaceTag(ReplaceTag(ReplaceTag(t,
            "AI_GENERATED_IMAGE", <<"[Image generated]">>),
            "AI_IMAGE_PROMPT", <<>>),
            "IMAGE_GALLERY", <<"[Images found]">>),
            "WEATHER_DATA", <<>>))

\* JSON.stringify of a weather object
LocationKey == "{\"location\":"
TemperatureKey == ",\"temperature\":"
ConditionKey == ",\"condition\":"
WeatherTail == ",\"humidity\":65,\"windSpeed\":15,\"icon\":\"2\"}"

WeatherJson(w) ==
    <<LocationKey, "\"">> \o JsonEscape(w.location)
    \o <<"\"", TemperatureKey, w.temperature, ConditionKey, "\"">> \o JsonEscape(w.condition)
    \o <<"\"", WeatherTail>>

NoWeather == [location |-> <<>>, temperature |-> "", condition |-> <<>>]
Temperatures == {"20"}

\* JSON.parse on the payloads that occur here: the text of a weather object parses to
\* that object, anything else makes JSON.parse throw
ParseWeatherJson(p) ==
    LET q1 == IF Len(p) >= 2 THEN IndexOf(SubSeq(p, 3, Len(p)), "\"") ELSE 0
        c1 == q1 + 2                       \* the quote that closes the location
        q2 == IF q1 # 0 /\ Len(p) >= c1 + 4
              THEN IndexOf(SubSeq(p, c1 + 5, Len(p)), "\"") ELSE 0
        c2 == q2 + c1 + 4                  \* the quote that closes the condition
        ok == /\ q1 # 0
              /\ q2 # 0
              /\ p[1] = LocationKey
              /\ p[2] = "\""
              /\ JsonStringBody(SubSeq(p, 3, c1 - 1))
              /\ p[c1 + 1] = TemperatureKey
              /\ p[c1 + 2] \in Temperatures
              /\ p[c1 + 3] = ConditionKey
              /\ p[c1 + 4] = "\""
              /\ JsonStringBody(SubSeq(p, c1 + 5, c2 - 1))
              /\ Len(p) = c2 + 1
              /\ p[c2 + 1] = WeatherTail
    IN IF ok
       THEN [ok |-> TRUE,
             w |-> [location |-> JsonUnescape(SubSeq(p, 3, c1 - 1)),
                    temperature |-> p[c1 + 2],
                    condition |-> JsonUnescape(SubSeq(p, c1 + 5, c2 - 1))]]
       ELSE [ok |-> FALSE, w |-> NoWeather]

\* parseWeatherFromText: ok FALSE stands for null
ParseWeatherFromText(t) ==
    LET sp == FirstSpan(t, OpenTag("WEATHER_DATA"), CloseTag("WEATHER_DATA"))
    IN IF ~sp.found THEN [ok |-> FALSE, w |-> NoWeather]
       ELSE ParseWeatherJson(SubSeq(t, sp.payloadFrom, sp.payloadTo))

\* the replies explored: a weather block followed by prose, and free texts
FieldAlphabet == {"a", "[", "]", "\"", "[/WEATHER_DATA]"}
Strings(A, n) == UNION {[1..k -> A] : k \in 0..n}
Conditions == {<<"Sunny">>, <<"[", "\"">>}
Proses == {<<>>, <<" ", "o", "k", " ">>, <<LF, "[", "x">>}

WeatherObjects ==
    {[location |-> l, temperature |-> t, condition |-> c] :
        l \in Strings(FieldAlphabet, MaxField), t \in Temperatures, c \in Conditions}

ComposeMarker(w) == OpenTag("WEATHER_DATA") \o WeatherJson(w) \o CloseTag("WEATHER_DATA")

TextAlphabet == {"[AI_IMAGE_", "PROMPT]", "[/AI_IMAGE_PROMPT]", "[WEATHER_DATA]",
                 "[/WEATHER_DATA]", "x"}

NoComposition == [w |-> NoWeather, prose |-> <<>>]

MarkersParked ==
    /\ fullResponse = <<>>
    /\ composed = NoComposition
    /\ weather = [ok |-> FALSE, w |-> NoWeather]
    /\ cleanResponse = <<>>
    /\ recleaned = <<>>
    /\ mpc = "again"
    /\ cliFrames = <<>>
    /\ cliBody = <<>>
    /\ cliPos = 0

MarkersInit ==
    /\ \/ \E w \in WeatherObjects, pr \in Proses :
             /\ composed = [w |-> w, prose |-> pr]
             /\ fullResponse = ComposeMarker(w) \o pr
       \/ /\ composed = NoComposition
          /\ fullResponse \in Strings(TextAlphabet, MaxText)
    /\ weather = [ok |-> FALSE, w |-> NoWeather]
    /\ cleanResponse = <<>>
    /\ recleaned = <<>>
    /\ mpc = "input"
    /\ cliFrames = <<>>
    /\ cliBody = <<>>
    /\ cliPos = 0

\* the for loop over `chunk.split("\n")`: the text after one chunk
RECURSIVE CliLines(_, _)
CliLines(chunk, full) ==
    LET nl   == IndexOf(chunk, LF)
        line == IF nl = 0 THEN chunk ELSE SubSeq(chunk, 1, nl - 1)
        data == SubSeq(line, Len(DataPrefix) + 1, Len(line))
        next == IF ~StartsWith(line, DataPrefix) THEN full
                ELSE IF data = DoneToken THEN full
                ELSE IF JsonParse(Trim(data)).ok
                THEN full \o JsonParse(Trim(data)).content
                ELSE full
    IN IF nl = 0 THEN next ELSE CliLines(SubSeq(chunk, nl + 1, Len(chunk)), next)

\* handleCommand has received a 2xx response whose body carries the lines fs
CliInit ==
    /\ cliFrames \in FrameSeqs
    /\ cliBody = Wire(cliFrames)
    /\ cliPos = 0
    /\ fullResponse = <<>>
    /\ composed = NoComposition
    /\ weather = [ok |-> FALSE, w |-> NoWeather]
    /\ cleanResponse = <<>>
    /\ recleaned = <<>>
    /\ mpc = "reading"

\* reader.read() resolves with the next n characters, which are decoded on their own
CliReadChunk(n) ==
    /\ mpc = "reading"
    /\ n \in 1..(Len(cliBody) - cliPos)
    /\ fullResponse' = CliLines(SubSeq(cliBody, cliPos + 1, cliPos + n), fullResponse)
    /\ cliPos' = cliPos + n
    /\ UNCHANGED <<composed, weather, cleanResponse, recleaned, mpc, cliFrames, cliBody>>
    /\ UNCHANGED <<clientVars, serverVars>>

\* reader.read() resolves with done
CliReadDone ==
    /\ mpc = "reading"
    /\ cliPos = Len(cliBody)
    /\ mpc' = "input"
    /\ UNCHANGED <<fullResponse, composed, weather, cleanResponse, recleaned, cliFrames,
                   cliBody, cliPos>>
    /\ UNCHANGED <<clientVars, serverVars>>

\* the reply is complete: the weather block is parsed and the text cleaned
Extract ==
    /\ mpc = "input"
    /\ weather' = ParseWeatherFromText(fullResponse)
    /\ cleanResponse' = CleanUp(fullResponse)
    /\ mpc' = "extracted"
    /\ UNCHANGED <<fullResponse, composed, recleaned, cliFrames, cliBody, cliPos>>
    /\ UNCHANGED <<clientVars, serverVars>>

\* the clean-up applied to the cleaned text
CleanAgain ==
    /\ mpc = "extracted"
    /\ recleaned' = CleanUp(cleanResponse)
    /\ mpc' = "again"
    /\ UNCHANGED <<fullResponse, composed, weather, cleanResponse, cliFrames, cliBody, cliPos>>
    /\ UNCHANGED <<clientVars, serverVars>>

(***************************************************************************)
(* The specifications                                                      *)
(***************************************************************************)
Init == ClientInit /\ ServerParked /\ MarkersParked

\* the steps that do not depend on how the body is delivered
Common ==
    \/ \E t \in Inputs : TypeInput(t)
    \/ SendIgnored
    \/ FetchThrows
    \/ \E st \in {429, 402, 500} : FetchNotOk(st)
    \/ FetchNoBody
    \/ ReadDone
    \/ ReadThrows

\* the first turn of a fresh conversation, text only, chunks of any size
Next ==
    \/ Common
    \/ (messages = <<>> /\ SendMessage)
    \/ \E fs \in FrameSeqs : FetchOk(fs)
    \/ \E n \in 1..Len(body) : ReadChunk(n)

Spec == Init /\ [][Next]_vars

\* `await fetch(...)` settles: the promise resolves or rejects
Respond ==
    \/ FetchThrows
    \/ \E st \in {429, 402, 500} : FetchNotOk(st)
    \/ FetchNoBody
    \/ \E fs \in FrameSeqs : FetchOk(fs)

\* the response stream ends or fails: `await reader.read()` resolves with done, or
\* rejects
Finish ==
    \/ ReadDone
    \/ ReadThrows

\* the first turn, with the awaits of sendMessage settling eventually: the response
\* arrives or the request fails, and the stream, once every chunk has been delivered,
\* ends, unless it fails first
SpecLive == Init /\ [][Next]_vars /\ WF_vars(Respond) /\ WF_vars(Finish)

\* up to MaxTurns turns, each body of at most one line and read as one chunk
NextTurns ==
    \/ Common
    \/ SelectImage
    \/ (turns < MaxTurns /\ SendMessage)
    \/ \E fs \in ShortFrameSeqs : FetchOk(fs)
    \/ ReadChunk(Len(body) - pos)

SpecTurns == Init /\ [][NextTurns]_vars

InitServe == ClientInit /\ ServeInit /\ MarkersParked

NextServe ==
    \/ Receive
    \/ \E reply \in GenReplies : GenReturns(reply)
    \/ \E reply \in SearchReplies : SearchReturns(reply)
    \/ \E st \in RelayStatuses : RelayReturns(st)
    \/ RelayThrows

SpecServe == InitServe /\ [][NextServe]_vars

\* image search requests, with every array of up to MaxItems elements as the reply
InitSearch ==
    /\ ClientInit
    /\ MarkersParked
    /\ req \in SearchRequests
    /\ apiKey = TRUE
    /\ ServeStart

NextSearch ==
    \/ Receive
    \/ (spc = "search" /\ \E reply \in WideSearchReplies : SearchReturns(reply))
    \/ RelayReturns(200)

SpecSearch == InitSearch /\ [][NextSearch]_vars

\* up to MaxTurns turns with the sidebar in use: a new chat or another chat can be
\* chosen at any moment, also while a reply is streaming
NextSwitch ==
    \/ \E t \in {<<>>, <<"h", "i", " ">>} : TypeInput(t)
    \/ (turns < MaxTurns /\ SendMessage)
    \/ FetchThrows
    \/ \E fs \in {<<"a">>, <<"a", "b">>} : FetchOk(fs)
    \/ \E n \in {Len(LineText("a")), Len(body) - pos} : ReadChunk(n)
    \/ ReadDone
    \/ (currentChatId # 0 /\ HandleNewChat)
    \/ \E chatId \in 1..MaxTurns : (chatId # currentChatId /\ HandleSelectChat(chatId))

SpecSwitch == Init /\ [][NextSwitch]_vars

\* requests with every combination of preferences, through the whole handler
InitCompose ==
    /\ ClientInit
    /\ MarkersParked
    /\ req \in ComposeRequests
    /\ apiKey = TRUE
    /\ ServeStart

NextCompose ==
    \/ Receive
    \/ \E reply \in GenReplies : GenReturns(reply)
    \/ \E reply \in SearchReplies : SearchReturns(reply)
    \/ \E st \in RelayStatuses : RelayReturns(st)
    \/ RelayThrows

SpecCompose == InitCompose /\ [][NextCompose]_vars

\* the CLI chat reads one response body, in chunks of any size, and cleans the text
InitCli == ClientInit /\ ServerParked /\ CliInit

NextCli ==
    \/ \E n \in 1..Len(cliBody) : CliReadChunk(n)
    \/ CliReadDone
    \/ Extract

SpecCli == InitCli /\ [][NextCli]_vars

\* one reply, parsed and cleaned
InitMarkers == ClientInit /\ ServerParked /\ MarkersInit

NextMarkers ==
    \/ Extract
    \/ CleanAgain

SpecMarkers == InitMarkers /\ [][NextMarkers]_vars

(***************************************************************************)
(* Properties of the client reassembler                                    *)
(***************************************************************************)
\* the messages this turn has added after its user message
TurnTail == SubSeq(messages, turnStart + 1, Len(messages))

\* the delta a line of the given kind carries
KindDelta(k) == IF k = "a" THEN <<"a">> ELSE IF k = "b" THEN <<"b">> ELSE <<>>

\* the deltas of the well-formed frames of a body, in stream order
RECURSIVE Deltas(_)
Deltas(ks) == IF ks = <<>> THEN <<>> ELSE KindDelta(Head(ks)) \o Deltas(Tail(ks))

HasKind(ks, k) == \E i \in 1..Len(ks) : ks[i] = k

NumUser(msgs) == Cardinality({i \in 1..Len(msgs) : msgs[i].role = "user"})

\* C1: once a `data: [DONE]` line has been processed the turn is terminal: no later
\* step of the turn appends a delta to the assembled text.
C1_DoneIsTerminal ==
    [][(pc = "read" /\ doneSeen) => assistantContent' = assistantContent]_vars

\* C2: whatever the partition of the body into chunks, a turn that ends normally has
\* assembled the text that feeding the whole body as one chunk assembles.
C2_ChunkingIrrelevant ==
    outcome = "completed" =>
        assistantContent = ProcessLines(body, <<>>, <<>>, FALSE).assistantContent

\* C2, for bodies without a [DONE] line: the partition does not matter.
C2_ChunkingIrrelevantNoDone ==
    (outcome = "completed" /\ ~HasKind(frames, "done")) =>
        assistantContent = ProcessLines(body, <<>>, <<>>, FALSE).assistantContent

\* C3: an ill-formed `data: ` line is dropped and the stream goes on: in a body
\* without [DONE], the assembled text is the deltas of all its well-formed frames.
C3_BadLineDropped ==
    (outcome = "completed" /\ ~HasKind(frames, "done")) =>
        assistantContent = Deltas(frames)

\* C4: when reading the body fails after deltas were folded into the list, the turn
\* ends with the apology alone: the partial text is gone from the messages.
C4_PartialDiscarded ==
    (outcome = "errored" /\ assistantContent # <<>>) =>
        TurnTail = <<AssistantMessage(ErrorText)>>

\* C5: a turn that ends normally with nothing assembled appends exactly one assistant
\* message, the fixed "couldn't generate a response" text; no assistant message ever
\* has empty content.
C5_EmptyTerminal ==
    /\ (outcome = "completed" /\ assistantContent = <<>>) =>
           TurnTail = <<AssistantMessage(EmptyResponseText)>>
    /\ \A i \in 1..Len(messages) :
           messages[i].role = "assistant" => messages[i].text # <<>>

C5_Witness ==
    /\ outcome = "completed"
    /\ assistantContent = <<>>
    /\ HasKind(frames, "done")
    /\ HasKind(frames, "empty")

\* C6: at most one sendMessage is between its start and its finally, and while
\* isLoading no step issues a request or adds a user message.
C6_SingleInFlight ==
    /\ [](active = IF isLoading THEN 1 ELSE 0)
    /\ [][isLoading => (requests' = requests /\ NumUser(messages') = NumUser(messages))]_vars

\* a send invoked here is stopped by isLoading alone
C6_Witness ==
    /\ isLoading
    /\ active = 1
    /\ imagePreview
    /\ pc = "read"
    /\ turns = 1

C24_StreamStaysInItsChat ==
    [][(pc = "read" /\ pos' > pos) =>
         /\ \A i \in 1..Len(chats) : chats[i].id # turnChatId => chats'[i] = chats[i]
         /\ currentChatId # turnChatId => messages' = messages]_vars

\* C25: a send that has set isLoading sets it back on every path that ends the turn
\* (stream ended, non-2xx response, no body, thrown error): whenever isLoading holds
\* it is eventually false again, and it is false whenever no send is in progress
C25_LoadingEnds ==
    /\ [](pc = "idle" => ~isLoading)
    /\ (isLoading ~> ~isLoading)

\* a turn that ended in the catch block, with the input enabled again
C25_Witness ==
    /\ requests = 1
    /\ outcome = "errored"
    /\ pc = "idle"
    /\ ~isLoading

(***************************************************************************)
(* Properties of the chat function                                         *)
(***************************************************************************)
\* the calls of a kind issued so far
CallsOf(kind) == {i \in 1..Len(upstream) : upstream[i].kind = kind}

\* s occurs in t as a run of consecutive elements
Contains(t, s) == \E i \in 0..(Len(t) - Len(s)) : SubSeq(t, i + 1, i + Len(s)) = s

\* the lines of a text, each without its terminating line feed
RECURSIVE SplitLines(_)
SplitLines(t) ==
    IF IndexOf(t, LF) = 0 THEN <<>>
    ELSE <<SubSeq(t, 1, IndexOf(t, LF) - 1)>> \o SplitLines(SubSeq(t, IndexOf(t, LF) + 1, Len(t)))

\* the request has passed the key check and the intent decision
Classified == apiKey /\ spc # "start"

\* C7: once a request whose last user message matches a generation pattern (with the
\* capabilities enabled) has been classified, a generation prompt is set and the
\* generation call is the first call; no search query is ever computed and no search
\* call is ever issued, also when the text matches a search pattern.
C7_GenerationPreemptsSearch ==
    (Classified /\ CloudPlus(req) /\ DetectAIImageRequest(req.messages) # <<>>)
        => /\ aiImagePrompt # <<>>
           /\ upstream[1].kind = "generate"
           /\ imageQuery = <<>>
           /\ CallsOf("search") = {}

C7_Witness ==
    /\ spc = "done"
    /\ CloudPlus(req)
    /\ DetectAIImageRequest(req.messages) # <<>>
    /\ DetectImageRequest(req.messages) # <<>>
    /\ aiGeneratedImage = <<>>
    /\ Len(upstream) = 2
    /\ upstream[2].kind = "relay"

\* the messages made of a verb, an optional "me", an optional "a" or "an", and a noun
BareForms ==
    {<<v>> \o m \o d \o <<n>> :
        v \in {"generate", "create", "make", "draw", "design"},
        m \in Slot({"me"}),
        d \in Slot({"a", "an"}),
        n \in {"image", "picture", "art", "artwork", "illustration"}}

\* C8: a single user message that is a bare form (any of the five verbs, any of the
\* five nouns, no subject) is classified as a generation request whose prompt is the
\* whole message.
C8_BareFormsGenerate ==
    (/\ Classified
     /\ CloudPlus(req)
     /\ Len(req.messages) = 1
     /\ req.messages[1].role = "user"
     /\ req.messages[1].form = "string"
     /\ req.messages[1].words \in BareForms)
        => /\ aiImagePrompt = req.messages[1].words
           /\ upstream[1].kind = "generate"

\* C9: with cloudPlusEnabled = false no generation prompt and no search query is
\* set, the only call ever issued is the chat completion, its system prompt has no
\* gallery block, and the answer is the one the relay produces from the outcome of
\* that call.
C9_CapabilitiesOff ==
    (apiKey /\ req.cloudPlusEnabled = "false")
        => /\ aiImagePrompt = <<>>
           /\ imageQuery = <<>>
           /\ imageUrls = <<>>
           /\ \A i \in 1..Len(upstream) :
                 /\ upstream[i].kind = "relay"
                 /\ ~Contains(upstream[i].system, <<"[IMAGE_GALLERY]">>)
           /\ spc = "done"
                 => /\ Len(upstream) = 1
                    /\ response \in {RelayResponse(st) : st \in RelayStatuses}
                                      \cup {CatchResponse("fetch failed")}

C9_Witness ==
    /\ spc = "done"
    /\ apiKey
    /\ req.cloudPlusEnabled = "false"
    /\ DetectAIImageRequest(req.messages) # <<>>
    /\ DetectImageRequest(req.messages) # <<>>
    /\ response = RelayResponse(200)

\* C10: when the generation call has returned an image, the answer is an event
\* stream of four lines: one data line whose JSON payload parses and whose delta
\* content holds the two marker blocks with the url and the prompt, an empty line,
\* the line `data: [DONE]`, and an empty line; only the generation call was issued.
C10_GeneratedImageStream ==
    (spc = "done" /\ aiGeneratedImage # <<>>)
        => LET lines == SplitLines(response.body)
               frame == JsonParse(SubSeq(lines[1], Len(DataPrefix) + 1, Len(lines[1])))
           IN /\ response.status = 200
              /\ response.contentType = EventStream
              /\ response.body[Len(response.body)] = LF
              /\ Len(lines) = 4
              /\ StartsWith(lines[1], DataPrefix)
              /\ frame.ok
              /\ Contains(frame.content,
                          <<"[AI_GENERATED_IMAGE]">> \o aiGeneratedImage
                              \o <<"[/AI_GENERATED_IMAGE]">>)
              /\ Contains(frame.content,
                          <<"[AI_IMAGE_PROMPT]">> \o Join(aiImagePrompt)
                              \o <<"[/AI_IMAGE_PROMPT]">>)
              /\ lines[2] = <<>>
              /\ lines[3] = DataPrefix \o DoneToken
              /\ lines[4] = <<>>
              /\ Len(upstream) = 1
              /\ upstream[1].kind = "generate"

C10_Witness ==
    /\ spc = "done"
    /\ aiGeneratedImage # <<>>
    /\ aiImagePrompt = <<"cat">>
    /\ response.contentType = EventStream

\* the reply to the latest answered call
LastReply == replies[Len(replies)]

\* the generation call was made and did not yield an image
GenFailed ==
    /\ Len(replies) >= 1
    /\ upstream[1].kind = "generate"
    /\ (replies[1].status # "ok" \/ replies[1].url = <<>>)

\* C11: when the generation call fails (non-2xx, no image in the body, or a throw)
\* no image is kept, the chat completion is the next and only further call, the
\* answer is the one the relay gives for the outcome of that call, and it is never
\* the synthesized image reply.
C11_GenFailureFallsThrough ==
    GenFailed
        => /\ aiGeneratedImage = <<>>
           /\ spc \in {"relay", "done"}
           /\ Len(upstream) = 2
           /\ upstream[2] = RelayCall(SystemPrompt(req, <<>>), req.webSearchEnabled)
           /\ spc = "done"
                 => /\ Len(replies) = 2
                    /\ response = IF replies[2].status = "throws"
                                  THEN CatchResponse(replies[2].text)
                                  ELSE RelayResponse(replies[2].http)
                    /\ response.body # SseResponse(ImageResponse(replies[1].url, aiImagePrompt))

C11_Witness ==
    /\ spc = "done"
    /\ GenFailed
    /\ replies[1].status = "throws"
    /\ response.status = 200
    /\ response.contentType = EventStream
    /\ response.body = UpstreamBody

GalleryOpenTag == "[IMAGE_GALLERY]"

\* C26: when the last user message matches a generation pattern and the generation
\* call fails, no image search is attempted for the request even if the message also
\* matches a search pattern: no query, no search call, no urls, and the prompt of the
\* chat completion that follows carries no image-gallery block
C26_NoSearchAfterFailedGeneration ==
    (GenFailed /\ DetectImageRequest(req.messages) # <<>>)
        => /\ imageQuery = <<>>
           /\ imageUrls = <<>>
           /\ CallsOf("search") = {}
           /\ \A i \in CallsOf("relay") : ~Contains(upstream[i].system, <<GalleryOpenTag>>)

C26_Witness ==
    /\ GenFailed
    /\ replies[1].status = "non2xx"
    /\ DetectImageRequest(req.messages) # <<>>
    /\ CallsOf("relay") = {2}
    /\ spc = "done"

\* C27: when webSearchEnabled is false no request sent to the model gateway for the
\* turn enables the web-search tool, neither the chat completion nor the image search
C27_NoToolWhenWebSearchOff ==
    ~req.webSearchEnabled => \A i \in 1..Len(upstream) : ~upstream[i].tools

\* with web search off, only the image search carries the tool
C27_OnlySearchCarriesTool ==
    ~req.webSearchEnabled =>
        \A i \in 1..Len(upstream) : upstream[i].tools <=> upstream[i].kind = "search"

\* the first upstream call of a request whose capabilities are on
FirstCallWhenEnabled(r) ==
    IF DetectAIImageRequest(r.messages) # <<>>
    THEN GenCall(DetectAIImageRequest(r.messages))
    ELSE IF DetectImageRequest(r.messages) # <<>>
    THEN SearchCall(DetectImageRequest(r.messages))
    ELSE RelayCall(SystemPrompt(r, <<>>), r.webSearchEnabled)

\* C28: a request that omits cloudPlusEnabled (undefined or null) is treated as one
\* with cloudPlusEnabled = true: the last user message is classified, the generation
\* prompt and the search query are the detectors' results and the first call is the
\* generation or search call they ask for; with the literal false nothing is detected
C28_OmittedMeansEnabled ==
    /\ (Classified /\ req.cloudPlusEnabled \in {"undefined", "null", "true"})
          => /\ aiImagePrompt = DetectAIImageRequest(req.messages)
             /\ aiImagePrompt = <<>> => imageQuery = DetectImageRequest(req.messages)
             /\ upstream[1] = FirstCallWhenEnabled(req)
    /\ (Classified /\ req.cloudPlusEnabled = "false")
          => (aiImagePrompt = <<>> /\ imageQuery = <<>> /\ upstream[1].kind = "relay")

C28_Witness ==
    /\ req.cloudPlusEnabled = "null"
    /\ spc = "done"
    /\ upstream[1].kind = "search"
    /\ imageQuery # <<>>

\* the request with its systemContext left out
WithoutSystemContext(r) == [r EXCEPT !.systemContext = <<>>]

\* the upstream call the handler makes at position i for request r, given the state
UpstreamCallFor(r, i) ==
    IF upstream[i].kind = "generate" THEN GenCall(AiImagePromptFor(r))
    ELSE IF upstream[i].kind = "search" THEN SearchCall(ImageQueryFor(r, <<>>))
    ELSE RelayCall(SystemPrompt(r, imageUrls), r.webSearchEnabled)

\* C29: the systemContext a caller supplies never influences the composed prompt or
\* the upstream calls: every call made for the request is the call made for the same
\* request without systemContext, and no system prompt contains the supplied text
C29_SystemContextIgnored ==
    \A i \in 1..Len(upstream) :
        /\ upstream[i] = UpstreamCallFor(WithoutSystemContext(req), i)
        /\ req.systemContext # <<>> => ~Contains(upstream[i].system, req.systemContext)

C29_Witness ==
    /\ req.systemContext # <<>>
    /\ spc = "done"
    /\ Len(upstream) = 2
    /\ upstream[1].kind = "search"
    /\ imageUrls # <<>>

\* the chat completion call was answered with an HTTP status
RelayAnswered ==
    /\ spc = "done"
    /\ Len(replies) >= 1
    /\ upstream[Len(replies)].kind = "relay"
    /\ LastReply.status # "throws"

\* C12: the answer to a chat completion that returned a status: 429 gives 429, 402
\* gives 402, any other non-2xx gives 500 with the fixed message, no error answer
\* holds the upstream error text, and a 2xx gives the event stream.
C12_RelayStatusMapping ==
    RelayAnswered
        => LET h == LastReply.http
           IN /\ h = 429 => response.status = 429
              /\ h = 402 => response.status = 402
              /\ (~Ok(h) /\ h \notin {429, 402})
                    => /\ response.status = 500
                       /\ response.body = ErrorBody("AI service temporarily unavailable")
              /\ ~Ok(h) => /\ response.contentType = AppJson
                           /\ ~Contains(response.body, <<LastReply.text>>)
              /\ Ok(h) => /\ response.status = 200
                          /\ response.contentType = EventStream
                          /\ response.body = UpstreamBody

C12_Witness ==
    /\ RelayAnswered
    /\ LastReply.http = 503
    /\ LastReply.text = UpstreamErrorText
    /\ response.status = 500

\* C13: whatever error the outer catch receives, the answer is a 500 with a JSON body
\* that does not hold the error's message.
C13_GenericCatch ==
    caught # ""
        => /\ response.status = 500
           /\ response.contentType = AppJson
           /\ ~Contains(response.body, <<caught>>)

\* C14: without an API key no upstream call is ever made and the answer is a 500.
C14_MissingKeyFailsFast ==
    ~apiKey
        => /\ upstream = <<>>
           /\ replies = <<>>
           /\ spc = "done" => response.status = 500

C14_Witness ==
    /\ ~apiKey
    /\ req.readable
    /\ spc = "done"
    /\ CloudPlus(req)
    /\ DetectAIImageRequest(req.messages) # <<>>
    /\ response.body = ErrorBody("LOVABLE_API_KEY is not configured")

\* C15: each kind of upstream call is issued at most once, at most one call is
\* awaiting its reply, and the chat completion is the last call, issued only after
\* every earlier call has been answered.
C15_SingleAttemptSequential ==
    /\ \A kind \in {"generate", "search", "relay"} : Cardinality(CallsOf(kind)) <= 1
    /\ Len(upstream) - Len(replies) \in {0, 1}
    /\ \A i \in CallsOf("relay") : i = Len(upstream) /\ Len(replies) >= i - 1

C15_Witness ==
    /\ spc = "done"
    /\ Len(upstream) = 2
    /\ upstream[1].kind = "search"
    /\ replies[1].status = "throws"
    /\ replies[2].status = "non2xx"

\* the search call has been answered
SearchAnswered ==
    \/ Len(replies) >= 1 /\ upstream[Len(replies)].kind = "search"
    \/ Len(replies) >= 2 /\ upstream[Len(replies) - 1].kind = "search"

\* the reply to the search call
SearchReply ==
    IF upstream[Len(replies)].kind = "search" THEN replies[Len(replies)]
    ELSE replies[Len(replies) - 1]

\* the urls among the elements an array was written from, in order
RECURSIVE HttpOf(_)
HttpOf(ks) ==
    IF ks = <<>> THEN <<>>
    ELSE (IF Head(ks) = "a" THEN <<UrlA>> ELSE IF Head(ks) = "b" THEN <<UrlB>> ELSE <<>>)
         \o HttpOf(Tail(ks))

\* C16: imageUrls never has more than 5 elements and each begins with http; it is
\* empty when the search call failed, when the text has no bracketed array and when
\* the array does not parse; for a reply that is an array it is the first (at most) 5
\* of the array's http strings, in the array's order.
C16_SearchImagesResult ==
    /\ Len(imageUrls) <= MaxImageUrls
    /\ \A i \in 1..Len(imageUrls) : StartsWith(imageUrls[i], <<"http">>)
    /\ SearchAnswered
          => /\ SearchReply.status # "ok" => imageUrls = <<>>
             /\ (SearchReply.status = "ok"
                   /\ (IndexOf(SearchReply.content, "[") = 0
                       \/ IndexOf(SearchReply.content, "]") = 0
                       \/ ~ParseUrlArray(SearchReply.content).ok))
                   => imageUrls = <<>>
             /\ "kinds" \in DOMAIN SearchReply
                   => LET good == HttpOf(SearchReply.kinds)
                      IN /\ Len(imageUrls) = (IF Len(good) < 5 THEN Len(good) ELSE 5)
                         /\ imageUrls = SubSeq(good, 1, Len(imageUrls))

C16_Witness ==
    /\ SearchAnswered
    /\ "kinds" \in DOMAIN SearchReply
    /\ SearchReply.kinds = <<"c", "a", "n", "b", "a", "b">>
    /\ imageUrls = <<UrlA, UrlB, UrlA, UrlB>>
    /\ spc = "done"

\* the text between the gallery tags of a system prompt
GalleryPayload(sys) ==
    SubSeq(sys, IndexOf(sys, "[IMAGE_GALLERY]") + 1, IndexOf(sys, "[/IMAGE_GALLERY]") - 1)

\* C17: the system prompt of the chat completion call holds the gallery block exactly
\* when the image search of this request returned urls, and then the array between
\* the tags parses to the returned urls, in their order.
C17_GalleryIffUrls ==
    \A i \in CallsOf("relay") :
        LET sys == upstream[i].system
        IN /\ Contains(sys, <<"[IMAGE_GALLERY]">>) <=> imageUrls # <<>>
           /\ imageUrls # <<>>
                 => /\ CallsOf("search") # {}
                    /\ IndexOf(sys, "[IMAGE_GALLERY]") < IndexOf(sys, "[/IMAGE_GALLERY]")
                    /\ LET parsed == ParseUrlArray(GalleryPayload(sys))
                       IN /\ parsed.ok
                          /\ [k \in 1..Len(parsed.items) |-> parsed.items[k].v] = imageUrls
                          /\ \A k \in 1..Len(parsed.items) : parsed.items[k].isString

C17_Witness ==
    /\ spc = "done"
    /\ Len(upstream) = 2
    /\ upstream[2].kind = "relay"
    /\ imageUrls = <<UrlA, UrlB>>
    /\ Contains(upstream[2].system, <<"[IMAGE_GALLERY]">>)

(***************************************************************************)
(* Properties of the marker blocks                                         *)
(***************************************************************************)
\* C18: a reply written as the weather block of an object w followed by prose yields
\* the block w, and the cleaned text is the prose trimmed.
C18_WeatherRoundTrip ==
    (mpc # "input" /\ composed # NoComposition)
        => /\ weather = [ok |-> TRUE, w |-> composed.w]
           /\ cleanResponse = Trim(composed.prose)

\* the same for the objects none of whose string fields holds the closing tag
C18_WeatherRoundTripPlain ==
    (/\ mpc # "input"
     /\ composed # NoComposition
     /\ ~Contains(composed.w.location, CloseTag("WEATHER_DATA"))
     /\ ~Contains(composed.w.condition, CloseTag("WEATHER_DATA")))
        => /\ weather = [ok |-> TRUE, w |-> composed.w]
           /\ cleanResponse = Trim(composed.prose)

\* the first weather span of the reply
WeatherSpan == FirstSpan(fullResponse, OpenTag("WEATHER_DATA"), CloseTag("WEATHER_DATA"))

\* C19: when the payload of the weather span is not valid JSON no block is recorded
\* and the cleaned text still holds the span, tags included.
C19_InvalidPayloadLeftInText ==
    (/\ mpc # "input"
     /\ WeatherSpan.found
     /\ ~ParseWeatherJson(SubSeq(fullResponse, WeatherSpan.payloadFrom,
                                 WeatherSpan.payloadTo)).ok)
        => /\ ~weather.ok
           /\ Contains(cleanResponse, SubSeq(fullResponse, WeatherSpan.from, WeatherSpan.to))

\* the half of C19 about the block alone
C19_InvalidPayloadNoBlock ==
    (/\ mpc # "input"
     /\ WeatherSpan.found
     /\ ~ParseWeatherJson(SubSeq(fullResponse, WeatherSpan.payloadFrom,
                                 WeatherSpan.payloadTo)).ok)
        => ~weather.ok

\* C20: cleaning the cleaned text changes nothing.
C20_CleanUpIdempotent == mpc = "again" => recleaned = cleanResponse


\* the sentence of the prompt that names the user, and the one that gives the pronouns
NameFragment == " The user's name is "
PronounFragment == " The user's preferred pronouns are "

\* C21: the prompt of the relay call contains the user-name sentence only when
\* userName is set and is not the placeholder "User", and the pronoun sentence only
\* when pronouns is set and is not "prefer-not-to-say"
C21_FragmentsOnlyForRealValues ==
    \A i \in CallsOf("relay") :
        /\ Contains(upstream[i].system, <<NameFragment>>) =>
              (req.userName # <<>> /\ req.userName # DefaultUserName)
        /\ Contains(upstream[i].system, <<PronounFragment>>) =>
              (req.pronouns # <<>> /\ req.pronouns # PreferNotToSay)

\* the fragments are there exactly when the value is set, whatever it is
C21_FragmentsForAnyValue ==
    \A i \in CallsOf("relay") :
        /\ Contains(upstream[i].system, <<NameFragment>>) <=> req.userName # <<>>
        /\ Contains(upstream[i].system, <<PronounFragment>>) <=> req.pronouns # <<>>

\* the last sentence of a system prompt
LastSentence(prompt) == prompt[Len(prompt)]

\* C22: the body of the chat relay request carries the web-search tool exactly when
\* webSearchEnabled is set, its system prompt ends with the web-search sentence in that
\* case and with the built-in-knowledge sentence otherwise, and the two never disagree
C22_ToolMatchesSentence ==
    \A i \in CallsOf("relay") :
        /\ upstream[i].tools <=> req.webSearchEnabled
        /\ LastSentence(upstream[i].system) =
              (IF req.webSearchEnabled THEN WebSearchSentence ELSE BuiltInSentence)
        /\ upstream[i].tools <=> LastSentence(upstream[i].system) = WebSearchSentence

C22_Witness ==
    /\ req.webSearchEnabled
    /\ \E i \in CallsOf("relay") :
          upstream[i].tools /\ LastSentence(upstream[i].system) = WebSearchSentence

\* C30: the CLI chat's reader assembles the same final text for every partition of
\* the body into chunks, also one that splits a `data:` line across two chunks: the
\* text at the end of the stream is the text the body read as a single chunk gives
C30_CliChunkingIrrelevant ==
    (mpc # "reading" /\ cliBody # <<>>) => fullResponse = CliLines(cliBody, <<>>)

\* the same, for the partitions that cut the body only right after a line feed
C30_CliLineAlignedChunks ==
    [][(mpc = "reading" /\ fullResponse = CliLines(SubSeq(cliBody, 1, cliPos), <<>>)
          /\ (cliPos = 0 \/ cliBody[cliPos] = LF)
          /\ cliPos' > cliPos /\ cliBody[cliPos'] = LF)
         => fullResponse' = CliLines(SubSeq(cliBody, 1, cliPos'), <<>>)]_vars

====
